---------------------------- MODULE Spec2Model ----------------------------
(***************************************************************************)
(* A model of app/algohub/algorithms/numeric.py: the bisection root finder *)
(* bisection_root and the two Integration strategies.                      *)
(*                                                                         *)
(* Numbers.  Python computes on floats; the model computes in exact        *)
(* arithmetic.  In the bisection part a number x is the integer x * Unit,  *)
(* where Unit = 125 * 2^Depth, so that every multiple of 1/1000 and every  *)
(* midpoint the bounded runs can compute is an integer number of units.    *)
(* In the integration part a number is a normalised fraction <<num, den>>. *)
(***************************************************************************)
EXTENDS Integers, Sequences, FiniteSets, TLC

VARIABLES calls, integ

vars == <<calls, integ>>

(***************************************************************************)
(* Bounds of the model.                                                    *)
(***************************************************************************)
\* the largest max_iterations a call is given
MaxIter == 5
\* the largest subdivision count n an integration call is given
MaxN == 6

(***************************************************************************)
(* Fixed-point numbers of the bisection part.                              *)
(***************************************************************************)
\* endpoints are multiples of 1/16 = 1/2^4; a run halves at most MaxIter + 1
\* times (MaxIter loop midpoints and the midpoint of line 44)
Depth == 4 + MaxIter + 1
Unit == 125 * (2 ^ Depth)
\* 0.001, the grid round(x, 3) rounds to
Milli == Unit \div 1000

Abs(x) == IF x < 0 THEN -x ELSE x
Sign(x) == IF x > 0 THEN 1 ELSE IF x < 0 THEN -1 ELSE 0
Min(x, y) == IF x <= y THEN x ELSE y
Max(x, y) == IF x <= y THEN y ELSE x

\* x / 2 (true division); exact on the grid, see GridExact
Half(x) == x \div 2

\* The sign of the product p * q; the code only ever compares a product of two
\* function values to 0 (lines 30 and 39)
SignOfProduct(p, q) == Sign(p) * Sign(q)

\* round(x, 3): to the nearest multiple of 0.001, an exact tie to the even one
Round3(x) ==
  LET q == x \div Milli
      r == x % Milli
  IN  IF 2 * r < Milli THEN q * Milli
      ELSE IF 2 * r > Milli THEN (q + 1) * Milli
      ELSE IF q % 2 = 0 THEN q * Milli ELSE (q + 1) * Milli

(***************************************************************************)
(* The caller-supplied scalar functions func.  Func(f, x) is a positive    *)
(* multiple of the value of f at x / Unit.                                 *)
(***************************************************************************)
FuncIds == {"x-5", "5-x", "3x-10", "16x-1", "|x-3|-2", "step3", "|x|+1", "zero"}

Func(f, x) ==
  CASE f = "x-5"     -> x - 5 * Unit
    [] f = "5-x"     -> 5 * Unit - x
    [] f = "3x-10"   -> 3 * x - 10 * Unit
    [] f = "16x-1"   -> 16 * x - Unit
    [] f = "|x-3|-2" -> Abs(x - 3 * Unit) - 2 * Unit
    [] f = "step3"   -> IF x < 3 * Unit THEN -Unit ELSE Unit
    [] f = "|x|+1"   -> Abs(x) + Unit
    [] f = "zero"    -> 0

\* the arguments the model calls bisection_root with
Endpoints == {0, Unit \div 16, Unit, 5 * Unit, 10 * Unit}
Tolerances == {-Unit, 0, Unit \div 2, Unit}
IterationCaps == 0 .. MaxIter

(***************************************************************************)
(* bisection_root, one call as a record:                                   *)
(*   func, a, b, tolerance, max_iterations, iteration : the locals         *)
(*   pc      : "entry" (line 30), "loop" (line 35), "returned", "raised"   *)
(*   ret     : "none", "c" (line 38) or "rounded" (line 44)                *)
(*   result  : the value returned                                          *)
(*   arg_a, arg_b : the bounds as passed, mid_evals : the number of        *)
(*   midpoints func was evaluated at (history, for the properties)         *)
(***************************************************************************)
NewCall(f, a, b, tol, cap) ==
  [func |-> f, a |-> a, b |-> b, tolerance |-> tol, max_iterations |-> cap,
   iteration |-> 0, pc |-> "entry", ret |-> "none", result |-> 0,
   arg_a |-> a, arg_b |-> b, mid_evals |-> 0]

\* the check with the case of two negative values forgotten
BracketRejectedBothPositive(c) ==
  Func(c.func, c.a) > 0 /\ Func(c.func, c.b) > 0

\* line 30: the bracket is rejected
BracketRejected(c) == SignOfProduct(Func(c.func, c.a), Func(c.func, c.b)) > 0

\* the bounds left as passed
NormalizeNoSwap(c) == c

\* lines 33-34: a, b = b, a when a > b
Normalize(c) == IF c.a > c.b THEN [c EXCEPT !.a = c.b, !.b = c.a] ELSE c

\* the loop condition with the cap off by one
LoopConditionInclusive(c) ==
  /\ Half(c.b - c.a) > c.tolerance
  /\ c.iteration <= c.max_iterations

\* line 35: the loop condition
LoopCondition(c) ==
  /\ Half(c.b - c.a) > c.tolerance
  /\ c.iteration < c.max_iterations

\* c = a + b / 2
MidpointPrecedence(c) == c.a + Half(c.b)

\* line 36
Midpoint(c) == Half(c.a + c.b)

\* the iteration count started at 1
EnterCallFromOne(c) ==
  IF BracketRejected(c)
  THEN [c EXCEPT !.pc = "raised"]
  ELSE [Normalize(c) EXCEPT !.iteration = 1, !.pc = "loop"]

\* lines 30-34: raise, or set iteration = 0 and order the bounds
EnterCall(c) ==
  IF BracketRejected(c)
  THEN [c EXCEPT !.pc = "raised"]
  ELSE [Normalize(c) EXCEPT !.iteration = 0, !.pc = "loop"]

\* lines 36-43: one execution of the loop body
LoopBody(c) ==
  LET m == Midpoint(c)
      d == [c EXCEPT !.mid_evals = c.mid_evals + 1]
  IN  IF Func(c.func, m) = 0
      THEN [d EXCEPT !.pc = "returned", !.ret = "c", !.result = m]
      ELSE IF SignOfProduct(Func(c.func, c.a), Func(c.func, m)) < 0
           THEN [d EXCEPT !.b = m, !.iteration = c.iteration + 1]
           ELSE [d EXCEPT !.a = m, !.iteration = c.iteration + 1]

\* line 44
ReturnRounded(c) ==
  [c EXCEPT !.pc = "returned", !.ret = "rounded",
            !.result = Round3(Half(c.a + c.b))]

(***************************************************************************)
(* The specification of the root finder: call 1 is bisection_root(func, a, *)
(* b, tolerance, max_iterations), call 2 is the same call with the bounds  *)
(* swapped; the two run independently.                                     *)
(***************************************************************************)
CallIds == {1, 2}

IntegIdle == [pc |-> "idle"]

Init ==
  /\ \E f \in FuncIds, a \in Endpoints, b \in Endpoints,
        tol \in Tolerances, cap \in IterationCaps :
       calls = [k \in CallIds |->
                  IF k = 1 THEN NewCall(f, a, b, tol, cap)
                           ELSE NewCall(f, b, a, tol, cap)]
  /\ integ = IntegIdle

CheckBracket(k) ==
  /\ calls[k].pc = "entry"
  /\ calls' = [calls EXCEPT ![k] = EnterCall(calls[k])]
  /\ UNCHANGED integ

Iterate(k) ==
  /\ calls[k].pc = "loop"
  /\ LoopCondition(calls[k])
  /\ calls' = [calls EXCEPT ![k] = LoopBody(calls[k])]
  /\ UNCHANGED integ

ExitLoop(k) ==
  /\ calls[k].pc = "loop"
  /\ ~LoopCondition(calls[k])
  /\ calls' = [calls EXCEPT ![k] = ReturnRounded(calls[k])]
  /\ UNCHANGED integ

Next ==
  \E k \in CallIds :
    \/ CheckBracket(k)
    \/ Iterate(k)
    \/ ExitLoop(k)

Spec == Init /\ [][Next]_vars

\* a call never stops before it returns or raises
FairSpec == Spec /\ \A k \in CallIds : WF_vars(CheckBracket(k) \/ Iterate(k) \/ ExitLoop(k))

(***************************************************************************)
(* Properties of bisection_root.                                           *)
(***************************************************************************)
Finished(c) == c.pc \in {"returned", "raised"}

\* the bounds as passed, in order
Lo(c) == Min(c.arg_a, c.arg_b)
Hi(c) == Max(c.arg_a, c.arg_b)

\* C1: a call whose arguments have func(a) * func(b) > 0 raises at line 31:
\* once it has left line 30 it has raised, with zero loop iterations, func
\* evaluated at no midpoint and nothing returned.
C1_BracketErrorBeforeLoop ==
  \A k \in CallIds :
    LET c == calls[k]
    IN  (/\ c.pc # "entry"
         /\ SignOfProduct(Func(c.func, c.arg_a), Func(c.func, c.arg_b)) > 0)
        => /\ c.pc = "raised"
           /\ c.iteration = 0
           /\ c.mid_evals = 0
           /\ c.ret = "none"

C1_Witness ==
  \E k \in CallIds :
    /\ calls[k].pc = "raised"
    /\ Func(calls[k].func, calls[k].arg_a) < 0
    /\ Func(calls[k].func, calls[k].arg_b) < 0
    /\ calls[k].arg_a # calls[k].arg_b

\* C2: the call with the bounds swapped has the identical outcome: when both
\* calls have finished, both raised, or both returned the same value by the
\* same return statement after the same number of iterations.
C2_SwappedBoundsSameOutcome ==
  (Finished(calls[1]) /\ Finished(calls[2]))
  => /\ calls[1].pc = calls[2].pc
     /\ calls[1].ret = calls[2].ret
     /\ calls[1].result = calls[2].result
     /\ calls[1].iteration = calls[2].iteration
     /\ calls[1].mid_evals = calls[2].mid_evals

C2_Witness ==
  /\ calls[1].pc = "returned" /\ calls[2].pc = "returned"
  /\ calls[1].arg_a > calls[1].arg_b
  /\ calls[1].iteration >= 3
  /\ calls[1].ret = "rounded"

\* C3: every call terminates, and the loop body is executed at most
\* max_iterations times, whatever the tolerance.
C3_TerminatesWithinCap ==
  /\ [](\A k \in CallIds :
          /\ calls[k].mid_evals <= calls[k].max_iterations
          /\ calls[k].iteration <= calls[k].max_iterations)
  /\ \A k \in CallIds : <>Finished(calls[k])

C3_Witness ==
  \E k \in CallIds :
    /\ calls[k].pc = "returned"
    /\ calls[k].tolerance <= 0
    /\ calls[k].max_iterations >= 3
    /\ calls[k].mid_evals = calls[k].max_iterations
    /\ calls[k].ret = "rounded"

\* the tolerance was never reached: the half-width of the final bracket (the
\* smallest of the run) is still above it
ToleranceUnreached(c) == Half(c.b - c.a) > c.tolerance

\* C4 as stated: with the tolerance unreachable and max_iterations = 5, a call
\* on a valid bracket returns after exactly 5 loop iterations.
C4_ExactlyFiveIterations ==
  \A k \in CallIds :
    LET c == calls[k]
    IN  (c.pc = "returned" /\ c.max_iterations = 5 /\ ToleranceUnreached(c))
        => c.iteration = 5

\* C4 amended: such a call returns after exactly 5 loop iterations unless func
\* is exactly 0 at one of the midpoints; then it returns that midpoint from
\* within the loop, having completed fewer than 5 iterations.
C4_FiveIterationsUnlessExactRoot ==
  \A k \in CallIds :
    LET c == calls[k]
    IN  (c.pc = "returned" /\ c.max_iterations = 5 /\ ToleranceUnreached(c))
        => \/ /\ c.ret = "rounded"
              /\ c.iteration = 5
              /\ c.mid_evals = 5
           \/ /\ c.ret = "c"
              /\ c.iteration < 5
              /\ c.mid_evals = c.iteration + 1
              /\ Func(c.func, c.result) = 0

C4_Witness ==
  \E k \in CallIds :
    /\ calls[k].pc = "returned"
    /\ calls[k].max_iterations = 5
    /\ ToleranceUnreached(calls[k])
    /\ calls[k].ret = "rounded"
    /\ calls[k].iteration = 5

\* the continuous strictly monotone functions of the model, each p*x - q with
\* the root q/p; Slope is |p|
Monotone == {"x-5", "5-x", "3x-10", "16x-1"}
Slope(f) == CASE f = "x-5" -> 1 [] f = "5-x" -> 1 [] f = "3x-10" -> 3 [] f = "16x-1" -> 16

\* the call ran to tolerance: it returned at an exact root, or left the loop
\* with the half-width of the bracket within the tolerance
RanToTolerance(c) ==
  /\ c.pc = "returned"
  /\ c.tolerance >= 0
  /\ (c.ret = "c" \/ Half(c.b - c.a) <= c.tolerance)

\* C5: for a continuous monotone func and a bracket with func(a)*func(b) <= 0,
\* a call run to tolerance returns a value within tolerance + 0.0005 of the
\* root, also when the root is an endpoint of the bracket.
\* (|func(result)| = Slope * |result - root| for these functions.)
C5_ResultWithinToleranceOfRoot ==
  \A k \in CallIds :
    LET c == calls[k]
    IN  (c.func \in Monotone /\ RanToTolerance(c))
        => Abs(Func(c.func, c.result)) <= Slope(c.func) * (c.tolerance + Milli \div 2)

\* C9: once the precondition has passed, the current bracket satisfies
\* func(a) * func(b) <= 0 at the start of the loop and after every iteration.
C9_BracketKeepsSignChange ==
  \A k \in CallIds :
    LET c == calls[k]
    IN  c.pc \in {"loop", "returned"}
        => SignOfProduct(Func(c.func, c.a), Func(c.func, c.b)) <= 0

\* the bracket after c.iteration completed iterations: ordered, inside the
\* bounds as passed, and of the initial width divided by 2^iteration
BracketHalved(c) ==
  /\ c.a <= c.b
  /\ Lo(c) <= c.a /\ c.b <= Hi(c)
  /\ (c.b - c.a) * (2 ^ c.iteration) = Hi(c) - Lo(c)

\* an iteration that does not return replaces exactly one endpoint by the
\* midpoint
ReplacesOneEndpoint(k) ==
  (calls[k].pc = "loop" /\ calls'[k].pc = "loop" /\ calls'[k] # calls[k])
  => /\ calls'[k].iteration = calls[k].iteration + 1
     /\ \/ calls'[k].a = Midpoint(calls[k]) /\ calls'[k].b = calls[k].b
        \/ calls'[k].b = Midpoint(calls[k]) /\ calls'[k].a = calls[k].a

\* C10 as stated: every iteration that does not return replaces one endpoint
\* by the midpoint, after k iterations the bracket is ordered, inside
\* [min(a,b), max(a,b)] and of the initial width / 2^k, and the value
\* returned lies in [min(a,b), max(a,b)].
C10_ReturnedValueInInterval ==
  /\ [][\A k \in CallIds : ReplacesOneEndpoint(k)]_vars
  /\ [](\A k \in CallIds :
          LET c == calls[k]
          IN  /\ c.pc \in {"loop", "returned"} => BracketHalved(c)
              /\ c.pc = "returned" => (Lo(c) <= c.result /\ c.result <= Hi(c)))

\* C10 amended: the same, but of the value returned only this: the midpoint
\* returned at line 38, and the midpoint that line 44 rounds, lie in
\* [min(a,b), max(a,b)]; the value line 44 returns is that midpoint rounded
\* to 3 decimals, at most 0.0005 from it (and possibly outside the interval).
C10_BracketHalvesMidpointInInterval ==
  /\ [][\A k \in CallIds : ReplacesOneEndpoint(k)]_vars
  /\ [](\A k \in CallIds :
          LET c == calls[k]
              m == Half(c.a + c.b)
          IN  /\ c.pc \in {"loop", "returned"} => BracketHalved(c)
              /\ (c.pc = "returned" /\ c.ret = "c")
                 => (Lo(c) <= c.result /\ c.result <= Hi(c))
              /\ (c.pc = "returned" /\ c.ret = "rounded")
                 => /\ Lo(c) <= m /\ m <= Hi(c)
                    /\ 2 * Abs(c.result - m) <= Milli
                    /\ c.result % Milli = 0)

C10_Witness ==
  \E k \in CallIds :
    /\ calls[k].pc = "returned"
    /\ calls[k].iteration >= 3
    /\ calls[k].ret = "rounded"
    /\ calls[k].result # Half(calls[k].a + calls[k].b)
    /\ calls[k].a > Lo(calls[k]) /\ calls[k].b < Hi(calls[k])

(***************************************************************************)
(* Exact fractions <<num, den>>, den > 0, in lowest terms: the numbers of  *)
(* the integration part.                                                   *)
(***************************************************************************)
RECURSIVE GCD(_, _)
GCD(x, y) == IF y = 0 THEN x ELSE GCD(y, x % y)

Frac(n, d) ==
  LET g == GCD(Abs(n), Abs(d))
      s == IF d < 0 THEN -1 ELSE 1
  IN  <<(s * n) \div g, (s * d) \div g>>

Whole(i) == <<i, 1>>
FAdd(x, y) == Frac(x[1] * y[2] + y[1] * x[2], x[2] * y[2])
FSub(x, y) == Frac(x[1] * y[2] - y[1] * x[2], x[2] * y[2])
FMul(x, y) == Frac(x[1] * y[1], x[2] * y[2])
\* x / n for an integer n # 0
FDivInt(x, n) == Frac(x[1], x[2] * n)
FLess(x, y) == x[1] * y[2] < y[1] * x[2]
FLeq(x, y) == x[1] * y[2] <= y[1] * x[2]
FAbs(x) == <<Abs(x[1]), x[2]>>
OneHalf == <<1, 2>>

(***************************************************************************)
(* The integrands func of the integration calls.                           *)
(***************************************************************************)
Integrands == {"2x+1", "3-x", "7", "x^2"}

Integrand(f, x) ==
  CASE f = "2x+1" -> FAdd(FMul(Whole(2), x), Whole(1))
    [] f = "3-x"  -> FSub(Whole(3), x)
    [] f = "7"    -> Whole(7)
    [] f = "x^2"  -> FMul(x, x)

IntegralBounds == {Whole(0), Whole(1), Whole(4), OneHalf}
Subdivisions == (-2) .. MaxN

\* what a call of calculate comes to
Returned(v) == [outcome |-> "returned", value |-> v]
\* ZeroDivisionError
Raised == [outcome |-> "raised", value |-> Whole(0)]

(***************************************************************************)
(* TrapezoidalIntegration.calculate                                        *)
(***************************************************************************)
\* lines 80-82: for i in range(i, n): integral_approximation += func(a + i * h)
RECURSIVE TrapezoidalLoop(_, _, _, _, _, _)
TrapezoidalLoop(func, a, h, i, n, integral_approximation) ==
  IF i >= n
  THEN integral_approximation
  ELSE TrapezoidalLoop(func, a, h, i + 1, n,
         FAdd(integral_approximation,
              Integrand(func, FAdd(a, FMul(Whole(i), h)))))

\* the rule with the loop started at 0 instead of 1
TrapezoidalFromZero(func, a, b, n) ==
  IF n = 0
  THEN Raised
  ELSE LET h == FDivInt(FSub(b, a), n)
           start == FMul(OneHalf, FAdd(Integrand(func, a), Integrand(func, b)))
       IN  Returned(FMul(TrapezoidalLoop(func, a, h, 0, n, start), h))

\* lines 77-83; the division of line 77 raises ZeroDivisionError when n = 0
TrapezoidalCalculate(func, a, b, n) ==
  IF n = 0
  THEN Raised
  ELSE LET h == FDivInt(FSub(b, a), n)
           start == FMul(OneHalf, FAdd(Integrand(func, a), Integrand(func, b)))
       IN  Returned(FMul(TrapezoidalLoop(func, a, h, 1, n, start), h))

(***************************************************************************)
(* RectangularIntegration.calculate                                        *)
(***************************************************************************)
\* lines 101-104: for i in range(i, n): integral_approximation += func(x) * h
RECURSIVE RectangularLoop(_, _, _, _, _, _)
RectangularLoop(func, a, h, i, n, integral_approximation) ==
  IF i >= n
  THEN integral_approximation
  ELSE LET x == FAdd(a, FMul(FAdd(Whole(i), OneHalf), h))
           rectangle_area == FMul(Integrand(func, x), h)
       IN  RectangularLoop(func, a, h, i + 1, n,
                           FAdd(integral_approximation, rectangle_area))

\* the rule with h computed by floor division, h = (b - a) // n
RectangularFloorDivision(func, a, b, n) ==
  IF n = 0
  THEN Raised
  ELSE LET d == FSub(b, a)
           h == Whole((d[1] \div d[2]) \div n)
       IN  Returned(RectangularLoop(func, a, h, 0, n, Whole(0)))

\* the rule with n validated: n <= 0 is refused
RectangularValidated(func, a, b, n) ==
  IF n <= 0
  THEN Raised
  ELSE Returned(RectangularLoop(func, a, FDivInt(FSub(b, a), n), 0, n, Whole(0)))

\* lines 98-105; the division of line 98 raises ZeroDivisionError when n = 0
RectangularCalculate(func, a, b, n) ==
  IF n = 0
  THEN Raised
  ELSE LET h == FDivInt(FSub(b, a), n)
       IN  Returned(RectangularLoop(func, a, h, 0, n, Whole(0)))

Calculate(strategy, func, a, b, n) ==
  IF strategy = "trapezoidal"
  THEN TrapezoidalCalculate(func, a, b, n)
  ELSE RectangularCalculate(func, a, b, n)

(***************************************************************************)
(* The specification of the integrators: a caller picks func, a, b and n,  *)
(* calls one strategy, and may call it again with n + 1.  integ holds the  *)
(* arguments and the outcome of the last call and, in prev, the value the  *)
(* call before it (with n - 1) returned.                                   *)
(***************************************************************************)
NoCalls == [k \in CallIds |-> NewCall("zero", 0, 0, 0, 0)]

IntegInit ==
  /\ calls = NoCalls
  /\ \E f \in Integrands, a \in IntegralBounds, b \in IntegralBounds,
        n \in Subdivisions :
       integ = [pc |-> "ready", strategy |-> "none", func |-> f, a |-> a,
                b |-> b, n |-> n, outcome |-> "none", value |-> Whole(0),
                has_prev |-> FALSE, prev |-> Whole(0)]

Invoke(strategy) ==
  \/ /\ integ.pc = "ready"
     /\ LET r == Calculate(strategy, integ.func, integ.a, integ.b, integ.n)
        IN  integ' = [integ EXCEPT !.pc = "done", !.strategy = strategy,
                                   !.outcome = r.outcome, !.value = r.value]
  \/ /\ integ.pc = "done"
     /\ integ.strategy = strategy
     /\ integ.outcome = "returned"
     /\ integ.n < MaxN
     /\ LET r == Calculate(strategy, integ.func, integ.a, integ.b, integ.n + 1)
        IN  integ' = [integ EXCEPT !.n = integ.n + 1,
                                   !.outcome = r.outcome, !.value = r.value,
                                   !.has_prev = TRUE, !.prev = integ.value]

Trapezoidal == Invoke("trapezoidal") /\ UNCHANGED calls

Rectangular == Invoke("rectangular") /\ UNCHANGED calls

IntegNext == Trapezoidal \/ Rectangular

SpecIntegration == IntegInit /\ [][IntegNext]_vars

(***************************************************************************)
(* Properties of the integrators.                                          *)
(***************************************************************************)
\* the linear integrands p*x + q, as <<p, q>>
LinearIntegrands == {"2x+1", "3-x", "7"}
Coefficients(f) == CASE f = "2x+1" -> <<2, 1>> [] f = "3-x" -> <<-1, 3>> [] f = "7" -> <<0, 7>>

\* the integral of p*x + q over [a, b]: p * (b^2 - a^2) / 2 + q * (b - a)
LinearIntegral(f, a, b) ==
  LET p == Whole(Coefficients(f)[1])
      q == Whole(Coefficients(f)[2])
  IN  FAdd(FMul(FMul(p, OneHalf), FSub(FMul(b, b), FMul(a, a))),
           FMul(q, FSub(b, a)))

\* the sum of func(a + i*h) for i = lo .. hi
RECURSIVE InteriorSum(_, _, _, _, _)
InteriorSum(f, a, h, lo, hi) ==
  IF lo > hi THEN Whole(0)
  ELSE FAdd(Integrand(f, FAdd(a, FMul(Whole(hi), h))), InteriorSum(f, a, h, lo, hi - 1))

\* h * (0.5*f(a) + 0.5*f(b) + sum of f(a + i*h) for i = 1..n-1), h = (b-a)/n
CompositeTrapezoid(f, a, b, n) ==
  LET h == FDivInt(FSub(b, a), n)
  IN  FMul(h, FAdd(FAdd(FMul(OneHalf, Integrand(f, a)), FMul(OneHalf, Integrand(f, b))),
                   InteriorSum(f, a, h, 1, n - 1)))

\* C6: for a linear func, a <= b and n >= 1 the trapezoidal value is the
\* composite trapezoid sum and equals the exact integral; for f(x) = 2x+1 over
\* [0, 4] it is 20 for every n >= 1.
C6_TrapezoidalExactOnLinear ==
  (/\ integ.pc = "done" /\ integ.strategy = "trapezoidal"
   /\ integ.func \in LinearIntegrands
   /\ FLeq(integ.a, integ.b) /\ integ.n >= 1)
  => /\ integ.outcome = "returned"
     /\ integ.value = CompositeTrapezoid(integ.func, integ.a, integ.b, integ.n)
     /\ integ.value = LinearIntegral(integ.func, integ.a, integ.b)
     /\ (integ.func = "2x+1" /\ integ.a = Whole(0) /\ integ.b = Whole(4))
        => integ.value = Whole(20)

C6_Witness ==
  /\ integ.pc = "done" /\ integ.strategy = "trapezoidal"
  /\ integ.func = "2x+1" /\ integ.a = Whole(0) /\ integ.b = Whole(4)
  /\ integ.n >= 3
  /\ integ.value = Whole(20)

\* |v - 1/3|
ErrorToThird(v) == FAbs(FSub(v, <<1, 3>>))

\* C7: for f(x) = x^2 over [0, 1] the absolute error of the rectangular value
\* with n + 1 subdivisions is strictly below that with n, for every n >= 1.
C7_RectangularErrorDecreases ==
  (/\ integ.pc = "done" /\ integ.strategy = "rectangular"
   /\ integ.func = "x^2" /\ integ.a = Whole(0) /\ integ.b = Whole(1)
   /\ integ.has_prev /\ integ.n >= 2)
  => /\ integ.outcome = "returned"
     /\ FLess(ErrorToThird(integ.value), ErrorToThird(integ.prev))

C7_Witness ==
  /\ integ.pc = "done" /\ integ.strategy = "rectangular"
  /\ integ.func = "x^2" /\ integ.a = Whole(0) /\ integ.b = Whole(1)
  /\ integ.has_prev /\ integ.n >= 4
  /\ integ.outcome = "returned"

\* C8: with n = 0 both strategies raise (the division in h = (b - a) / n) and
\* return no value; n is not validated otherwise: a call with any other n,
\* negative ones included, returns.
C8_ZeroSubdivisionsRaise ==
  integ.pc = "done"
  => /\ integ.n = 0 => integ.outcome = "raised"
     /\ integ.n # 0 => integ.outcome = "returned"

C8_Witness ==
  /\ integ.pc = "done" /\ integ.strategy = "rectangular"
  /\ integ.n = 0 /\ integ.outcome = "raised"
  /\ integ.a # integ.b

\* every number the runs halve is even, so Half is exact in the model
GridExact ==
  \A k \in CallIds :
    calls[k].pc = "loop" =>
      /\ (calls[k].b - calls[k].a) % 2 = 0
      /\ (calls[k].a + calls[k].b) % 2 = 0
=============================================================================
